---- MODULE Spec2Model ----
(***************************************************************************)
(* Model of EnhancedAnomalyDetector                                        *)
(* (backend/src/utils/enhanced_detection_fixed.py).                        *)
(*                                                                         *)
(* Numbers are exact rationals <<numerator, denominator>> in lowest terms  *)
(* with a positive denominator; the Python floats of the source are read   *)
(* as the reals they approximate.  A health_data dict is a sequence of     *)
(* <<parameter, value>> pairs with distinct parameters, in the dict's      *)
(* insertion order.  An Optional[...] return value is a sequence of length *)
(* 0 (None) or 1.  The description and recommendations texts of a result   *)
(* do not influence any stored state and are left out of the records; the  *)
(* format fields of _generate_anomaly_description (lines 380-385, written  *)
(* {value".0f"}) are read as the format specifications {value:.0f}.        *)
(* datetime.now() is a logical clock that advances by one per call.        *)
(* The variable last records the most recent call with the detector state  *)
(* before it, and returned_log every result list handed back per subject;  *)
(* both only observe the detector.  The variable query holds the argument  *)
(* and the returned dict of the most recent get_patient_history call; one  *)
(* tick of the clock is read as one hour.                                  *)
(*                                                                         *)
(* The detector takes no lock.  For calls made from two threads, threads   *)
(* holds each thread's position in its call and its local variables; a     *)
(* step of a thread is one statement (or a run of statements that touch    *)
(* only locals) of update_patient_baseline or detect_anomalies.  The local *)
(* name baseline refers either to the object stored in self.baselines      *)
(* (shared) or to an object only the thread holds.  solo is the detector   *)
(* state obtained by running the calls one at a time in the order they     *)
(* began, overlapped the subjects for which two calls were in progress at  *)
(* once, applied the number of baseline updates that ran to their last     *)
(* statement per subject.                                                  *)
(*                                                                         *)
(* config is the detector's self.config, of which the model keeps the      *)
(* "thresholds" table.                                                     *)
(*                                                                         *)
(* The remaining variables model config_manager.py: environ is os.environ  *)
(* restricted to the SWASTHYALINK_ variables (keyed by the configuration   *)
(* key they name), config_file the content of config/app_config.json       *)
(* (<<>> when the file does not exist; no config_schema.yaml exists),      *)
(* config_manager and config_lock the module globals _config_manager and   *)
(* _config_lock, callers the position of each thread in get_config_manager *)
(* with what it has built and received, constructed the number of          *)
(* ConfigurationManager instances constructed.  A Python value of the      *)
(* configuration is a record [kind, text] of its type and its text.        *)
(***************************************************************************)
EXTENDS Integers, Sequences, FiniteSets, TLC

VARIABLES baselines, anomaly_history, now, calls, last, returned_log, query,
          threads, solo, overlapped, applied, config,
          environ, config_file, config_manager, config_lock, callers, constructed

thread_vars == <<threads, solo, overlapped, applied>>

manager_vars == <<environ, config_file, config_manager, config_lock, callers,
                  constructed>>

detector_vars == <<baselines, anomaly_history, now, calls, last, returned_log,
                   query, config>>

vars == <<baselines, anomaly_history, now, calls, last, returned_log, query,
          threads, solo, overlapped, applied, config,
          environ, config_file, config_manager, config_lock, callers, constructed>>

(***************************************************************************)
(* Bounds of the model.                                                    *)
(***************************************************************************)
MaxCalls == 3

\* The number of calls the two threads make between them.
MaxThreadCalls == 2

\* The widest time window asked of get_patient_history, in hours.
MaxHours == 2

HistPrefill == 99

(***************************************************************************)
(* Rational arithmetic.                                                    *)
(***************************************************************************)
AbsInt(n) == IF n < 0 THEN -n ELSE n

RECURSIVE GCD(_, _)
GCD(a, b) == IF b = 0 THEN a ELSE GCD(b, a % b)

Norm(n, d) ==
    LET g == GCD(AbsInt(n), d)
    IN  IF n < 0 THEN <<-(AbsInt(n) \div g), d \div g>> ELSE <<n \div g, d \div g>>

R(n) == <<n, 1>>

Q(n, d) == Norm(n, d)

Add(a, b) == Norm(a[1] * b[2] + b[1] * a[2], a[2] * b[2])

Sub(a, b) == Norm(a[1] * b[2] - b[1] * a[2], a[2] * b[2])

Mul(a, b) == Norm(a[1] * b[1], a[2] * b[2])

DivPos(a, b) == Norm(a[1] * b[2], a[2] * b[1])

Leq(a, b) == a[1] * b[2] <= b[1] * a[2]

Lt(a, b) == a[1] * b[2] < b[1] * a[2]

AbsQ(a) == <<AbsInt(a[1]), a[2]>>

MaxQ(a, b) == IF Lt(a, b) THEN b ELSE a

MinQ(a, b) == IF Lt(b, a) THEN b ELSE a

(***************************************************************************)
(* Configuration and enumerations.                                         *)
(***************************************************************************)
normal_ranges ==
    [heart_rate               |-> <<R(60), R(100)>>,
     blood_pressure_systolic  |-> <<R(90), R(140)>>,
     blood_pressure_diastolic |-> <<R(60), R(90)>>,
     glucose                  |-> <<R(70), R(140)>>,
     oxygen_saturation        |-> <<R(95), R(100)>>,
     temperature              |-> <<Q(361, 10), Q(372, 10)>>,
     respiratory_rate         |-> <<R(12), R(20)>>]

AnomalySeverity == {"low", "medium", "high", "critical"}

severity_scores == [low |-> 1, medium |-> 2, high |-> 3, critical |-> 4]

\* The attributes an Enum member offers (AnomalySeverity defines no others).
EnumMemberAttributes == {"name", "value"}

\* param_mapping: tracked parameter -> field of PatientBaseline.
param_mapping ==
    [heart_rate              |-> "heart_rate_baseline",
     blood_pressure_systolic |-> "blood_pressure_baseline",
     glucose                 |-> "glucose_baseline",
     oxygen_saturation       |-> "oxygen_saturation_baseline",
     temperature             |-> "temperature_baseline",
     respiratory_rate        |-> "respiratory_rate_baseline"]

\* type_mapping: tracked parameter -> AnomalyType value.
type_mapping ==
    [heart_rate              |-> "heart_rate",
     blood_pressure_systolic |-> "blood_pressure",
     glucose                 |-> "glucose",
     oxygen_saturation       |-> "oxygen_saturation",
     temperature             |-> "temperature",
     respiratory_rate        |-> "respiratory_rate"]

TrackedParams == DOMAIN param_mapping

HistoryCapacity == 100

(***************************************************************************)
(* health_data dictionaries.                                               *)
(***************************************************************************)
Has(health_data, p) == \E i \in 1..Len(health_data) : health_data[i][1] = p

Get(health_data, p) ==
    health_data[CHOOSE i \in 1..Len(health_data) : health_data[i][1] = p][2]

\* A measurement that is not a number (a str, None, ...).
NonNumeric == <<0, 0>>

IsNumeric(value) == value[2] # 0

(***************************************************************************)
(* update_patient_baseline                                                 *)
(***************************************************************************)
\* The order in which the function's if-blocks visit the parameters.
ParamOrder ==
    <<"heart_rate", "blood_pressure_systolic", "glucose",
      "oxygen_saturation", "temperature", "respiratory_rate">>

PositionOf(p) == CHOOSE i \in 1..Len(ParamOrder) : ParamOrder[i] = p

\* The position of the first if-block whose arithmetic raises TypeError
\* (bound * weight + value * weight with a value that is not a number), or
\* Len(ParamOrder) + 1 when none does.
FirstBad(health_data) ==
    LET bad == { i \in 1..Len(ParamOrder) :
                   /\ Has(health_data, ParamOrder[i])
                   /\ ~IsNumeric(Get(health_data, ParamOrder[i])) }
    IN  IF bad = {} THEN Len(ParamOrder) + 1
        ELSE CHOOSE i \in bad : \A j \in bad : i <= j

UpdateRaises(health_data) == FirstBad(health_data) <= Len(ParamOrder)

\* The PatientBaseline a subject without a baseline starts from.
NewBaseline(patient_id, current_time) ==
    [patient_id                 |-> patient_id,
     heart_rate_baseline        |-> normal_ranges["heart_rate"],
     blood_pressure_baseline    |-> <<normal_ranges["blood_pressure_systolic"][1],
                                      normal_ranges["blood_pressure_systolic"][2]>>,
     glucose_baseline           |-> normal_ranges["glucose"],
     oxygen_saturation_baseline |-> normal_ranges["oxygen_saturation"],
     temperature_baseline       |-> normal_ranges["temperature"],
     respiratory_rate_baseline  |-> normal_ranges["respiratory_rate"],
     last_updated               |-> current_time,
     sample_count               |-> 1]

\* Variant: the upper bound never moves down.
WeightedInterval_widened(interval, value, weight_old, weight_new) ==
    <<Add(Mul(interval[1], weight_old), Mul(value, weight_new)),
      MaxQ(interval[2], value)>>

\* Variant: the upper bound takes the two weights the wrong way round.
WeightedInterval_swapped(interval, value, weight_old, weight_new) ==
    <<Add(Mul(interval[1], weight_old), Mul(value, weight_new)),
      Add(Mul(interval[2], weight_new), Mul(value, weight_old))>>

\* (bound * weight_old + value * weight_new) for both bounds of an interval.
WeightedInterval(interval, value, weight_old, weight_new) ==
    <<Add(Mul(interval[1], weight_old), Mul(value, weight_new)),
      Add(Mul(interval[2], weight_old), Mul(value, weight_new))>>

\* Variant: an absent parameter is read as 0 (health_data.get(p, 0)).
UpdateField_default(interval, health_data, p, weight_old, weight_new) ==
    IF PositionOf(p) < FirstBad(health_data)
    THEN WeightedInterval(interval,
                          IF Has(health_data, p) THEN Get(health_data, p) ELSE R(0),
                          weight_old, weight_new)
    ELSE interval

\* One "if p in health_data:" block: the interval of p after the call.  A
\* block behind the one that raises is never reached.
UpdateField(interval, health_data, p, weight_old, weight_new) ==
    IF Has(health_data, p) /\ PositionOf(p) < FirstBad(health_data)
    THEN WeightedInterval(interval, Get(health_data, p), weight_old, weight_new)
    ELSE interval

\* Variant: the weights are taken from the stored count as it is.
NextSampleCount_stored(exists, stored_count) == stored_count

\* Variant: the count is incremented for a new baseline as well.
NextSampleCount_incremented(exists, stored_count) == stored_count + 1

\* The local sample_count: stored count + 1, or 1 for a new baseline (whose
\* constructor sets the stored count to 1).
NextSampleCount(exists, stored_count) ==
    IF exists THEN stored_count + 1 ELSE 1

\* The baseline object when the call ends: by its return, or by the
\* TypeError that leaves the blocks before it applied and sample_count and
\* last_updated as they were.
UpdatedBaseline(bs, patient_id, health_data, current_time) ==
    LET exists       == patient_id \in DOMAIN bs
        baseline     == IF exists THEN bs[patient_id]
                        ELSE NewBaseline(patient_id, current_time)
        sample_count == NextSampleCount(exists, baseline.sample_count)
        weight_new   == DivPos(R(1), R(sample_count))
        weight_old   == Sub(R(1), weight_new)
        Upd(field, p) == UpdateField(baseline[field], health_data, p,
                                     weight_old, weight_new)
        raises       == UpdateRaises(health_data)
    IN  [patient_id                 |-> baseline.patient_id,
         heart_rate_baseline        |-> Upd("heart_rate_baseline", "heart_rate"),
         blood_pressure_baseline    |-> Upd("blood_pressure_baseline", "blood_pressure_systolic"),
         glucose_baseline           |-> Upd("glucose_baseline", "glucose"),
         oxygen_saturation_baseline |-> Upd("oxygen_saturation_baseline", "oxygen_saturation"),
         temperature_baseline       |-> Upd("temperature_baseline", "temperature"),
         respiratory_rate_baseline  |-> Upd("respiratory_rate_baseline", "respiratory_rate"),
         last_updated               |-> IF raises THEN baseline.last_updated
                                        ELSE current_time,
         sample_count               |-> IF raises THEN baseline.sample_count
                                        ELSE sample_count]

\* self.baselines after update_patient_baseline(patient_id, health_data).  A
\* new baseline object is stored only by the last statements, an existing
\* one is changed in place.
update_patient_baseline(bs, patient_id, health_data, current_time) ==
    IF UpdateRaises(health_data) /\ patient_id \notin DOMAIN bs THEN bs
    ELSE [q \in DOMAIN bs \cup {patient_id} |->
            IF q = patient_id
            THEN UpdatedBaseline(bs, patient_id, health_data, current_time)
            ELSE bs[q]]

(***************************************************************************)
(* _detect_single_parameter_anomaly and its helpers                        *)
(***************************************************************************)
\* Variant: the distance beyond the violated bound.
RelativeDeviation_beyond(value, normal_min, normal_max) ==
    DivPos(IF Lt(normal_max, value) THEN Sub(value, normal_max)
           ELSE Sub(normal_min, value),
           MaxQ(Sub(normal_max, normal_min), R(1)))

RelativeDeviation(value, normal_min, normal_max) ==
    LET deviation == MaxQ(AbsQ(Sub(value, normal_min)), AbsQ(Sub(value, normal_max)))
        max_range == MaxQ(Sub(normal_max, normal_min), R(1))
    IN  DivPos(deviation, max_range)

\* Variant: the MEDIUM and HIGH thresholds exchanged.
SeverityOf_swapped(relative_deviation) ==
    IF Lt(relative_deviation, Q(1, 10)) THEN "low"
    ELSE IF Lt(relative_deviation, Q(1, 4)) THEN "high"
    ELSE IF Lt(relative_deviation, Q(1, 2)) THEN "medium"
    ELSE "critical"

SeverityOf(relative_deviation) ==
    IF Lt(relative_deviation, Q(1, 10)) THEN "low"
    ELSE IF Lt(relative_deviation, Q(1, 4)) THEN "medium"
    ELSE IF Lt(relative_deviation, Q(1, 2)) THEN "high"
    ELSE "critical"

\* Variant: the cap at 0.95 left out.
ConfidenceOf_uncapped(relative_deviation) ==
    Add(Q(1, 2), relative_deviation)

ConfidenceOf(relative_deviation) ==
    MinQ(Q(95, 100), Add(Q(1, 2), relative_deviation))

\* Variant: the bradycardia rule includes 50.
identify_risk_factors_inclusive(anomaly_type, severity, value) ==
    (IF severity \in {"high", "critical"} THEN <<"High severity anomaly">> ELSE <<>>)
    \o (IF anomaly_type = "oxygen_saturation" /\ Lt(value, R(92))
        THEN <<"Potential respiratory distress">> ELSE <<>>)
    \o (IF anomaly_type = "heart_rate"
        THEN IF Lt(R(120), value) THEN <<"Tachycardia">>
             ELSE IF Leq(value, R(50)) THEN <<"Bradycardia">> ELSE <<>>
        ELSE <<>>)
    \o (IF anomaly_type = "blood_pressure"
        THEN IF Lt(R(180), value) THEN <<"Hypertensive crisis">>
             ELSE IF Lt(value, R(90)) THEN <<"Hypotension">> ELSE <<>>
        ELSE <<>>)

\* Variant: the tachycardia rule starts above 130.
identify_risk_factors_130(anomaly_type, severity, value) ==
    (IF severity \in {"high", "critical"} THEN <<"High severity anomaly">> ELSE <<>>)
    \o (IF anomaly_type = "oxygen_saturation" /\ Lt(value, R(92))
        THEN <<"Potential respiratory distress">> ELSE <<>>)
    \o (IF anomaly_type = "heart_rate"
        THEN IF Lt(R(130), value) THEN <<"Tachycardia">>
             ELSE IF Lt(value, R(50)) THEN <<"Bradycardia">> ELSE <<>>
        ELSE <<>>)
    \o (IF anomaly_type = "blood_pressure"
        THEN IF Lt(R(180), value) THEN <<"Hypertensive crisis">>
             ELSE IF Lt(value, R(90)) THEN <<"Hypotension">> ELSE <<>>
        ELSE <<>>)

identify_risk_factors(anomaly_type, severity, value) ==
    (IF severity \in {"high", "critical"} THEN <<"High severity anomaly">> ELSE <<>>)
    \o (IF anomaly_type = "oxygen_saturation" /\ Lt(value, R(92))
        THEN <<"Potential respiratory distress">> ELSE <<>>)
    \o (IF anomaly_type = "heart_rate"
        THEN IF Lt(R(120), value) THEN <<"Tachycardia">>
             ELSE IF Lt(value, R(50)) THEN <<"Bradycardia">> ELSE <<>>
        ELSE <<>>)
    \o (IF anomaly_type = "blood_pressure"
        THEN IF Lt(R(180), value) THEN <<"Hypertensive crisis">>
             ELSE IF Lt(value, R(90)) THEN <<"Hypotension">> ELSE <<>>
        ELSE <<>>)

\* Variant: every value is checked to be a number before the lookup.
SingleRaises_any(param, value) == ~IsNumeric(value)

\* The comparison normal_min <= value <= normal_max raises TypeError for a
\* value that is not a number; an untracked parameter returns before it.
SingleRaises(param, value) ==
    param \in DOMAIN param_mapping /\ ~IsNumeric(value)

\* <<>> for None, <<result>> otherwise.
detect_single_parameter_anomaly(param, value, baseline, current_time) ==
    IF param \notin DOMAIN param_mapping THEN <<>>
    ELSE
      LET normal_min == baseline[param_mapping[param]][1]
          normal_max == baseline[param_mapping[param]][2]
      IN  IF Leq(normal_min, value) /\ Leq(value, normal_max) THEN <<>>
          ELSE
            LET relative_deviation == RelativeDeviation(value, normal_min, normal_max)
                severity     == SeverityOf(relative_deviation)
                anomaly_type == type_mapping[param]
            IN  << [anomaly_type |-> anomaly_type,
                    severity     |-> severity,
                    confidence   |-> ConfidenceOf(relative_deviation),
                    value        |-> value,
                    normal_range |-> <<normal_min, normal_max>>,
                    timestamp    |-> current_time,
                    risk_factors |-> identify_risk_factors(anomaly_type, severity, value)] >>

(***************************************************************************)
(* _detect_multi_parameter_anomaly                                         *)
(***************************************************************************)
\* The key function  lambda x: severity_scores[x.severity]  applied to a
\* member x of AnomalySeverity: <<>> when the attribute lookup raises
\* AttributeError, <<score>> otherwise.
severity_key(x) ==
    IF "severity" \notin EnumMemberAttributes THEN <<>> ELSE <<severity_scores[x]>>

\* max(severities, key=...): the first element with the greatest key.
RECURSIVE MaxByKey(_, _, _)
MaxByKey(severities, i, best) ==
    IF i > Len(severities) THEN best
    ELSE IF severity_key(severities[i])[1] > severity_key(best)[1]
         THEN MaxByKey(severities, i + 1, severities[i])
         ELSE MaxByKey(severities, i + 1, best)

RECURSIVE SumConfidence(_, _)
SumConfidence(single_results, i) ==
    IF i > Len(single_results) THEN R(0)
    ELSE Add(single_results[i].confidence, SumConfidence(single_results, i + 1))

\* [raised |-> TRUE] when an exception leaves the function, otherwise the
\* Optional result.
detect_multi_parameter_anomaly(single_results, current_time) ==
    IF Len(single_results) < 2 THEN [raised |-> FALSE, result |-> <<>>]
    ELSE
      LET severities == [i \in 1..Len(single_results) |-> single_results[i].severity]
      IN  IF \E i \in 1..Len(severities) : severity_key(severities[i]) = <<>>
          THEN [raised |-> TRUE, result |-> <<>>]
          ELSE [raised |-> FALSE,
                result |-> << [anomaly_type |-> "multi_parameter",
                               severity     |-> MaxByKey(severities, 2, severities[1]),
                               confidence   |-> DivPos(SumConfidence(single_results, 1),
                                                       R(Len(single_results))),
                               value        |-> R(Len(single_results)),
                               normal_range |-> <<R(0), R(0)>>,
                               timestamp    |-> current_time,
                               risk_factors |-> <<"Multiple simultaneous anomalies">>] >>]

(***************************************************************************)
(* detect_anomalies                                                        *)
(***************************************************************************)
\* The loop over health_data.items(): the single-parameter results in order.
RECURSIVE SingleResults(_, _, _, _)
SingleResults(health_data, i, baseline, current_time) ==
    IF i > Len(health_data) THEN <<>>
    ELSE detect_single_parameter_anomaly(health_data[i][1], health_data[i][2],
                                         baseline, current_time)
         \o SingleResults(health_data, i + 1, baseline, current_time)

\* Variant: history[:100], which keeps the oldest entries.
TrimHistory_oldest(history) ==
    IF Len(history) > HistoryCapacity
    THEN SubSeq(history, 1, HistoryCapacity)
    ELSE history

\* history[-100:] once the list is longer than 100.
TrimHistory(history) ==
    IF Len(history) > HistoryCapacity
    THEN SubSeq(history, Len(history) - HistoryCapacity + 1, Len(history))
    ELSE history

\* Variant: the baseline is updated on every call.
EnsureBaseline_always(bs, patient_id, health_data, current_time) ==
    update_patient_baseline(bs, patient_id, health_data, current_time)

\* "Get or create patient baseline": self.baselines after the first statement.
EnsureBaseline(bs, patient_id, health_data, current_time) ==
    IF patient_id \notin DOMAIN bs
    THEN update_patient_baseline(bs, patient_id, health_data, current_time)
    ELSE bs

\* "Store results in history" to the return: the detector's state after the
\* call, whether it raised, and what it returned.  An exception raised by
\* the multi-parameter step leaves the function before the history is touched.
StoreResults(bs1, hist, patient_id, singles, multi) ==
    IF multi.raised
    THEN [baselines |-> bs1, anomaly_history |-> hist,
          raised |-> TRUE, results |-> <<>>]
    ELSE [baselines |-> bs1,
          anomaly_history |->
              [q \in DOMAIN hist \cup {patient_id} |->
                  IF q = patient_id
                  THEN TrimHistory((IF patient_id \in DOMAIN hist
                                    THEN hist[patient_id] ELSE <<>>)
                                   \o singles \o multi.result)
                  ELSE hist[q]],
          raised |-> FALSE, results |-> singles \o multi.result]

\* "Detect multi-parameter anomalies" onwards.
CorrelateResults(bs1, hist, patient_id, singles, current_time) ==
    StoreResults(bs1, hist, patient_id, singles,
                 IF Len(singles) > 1
                 THEN detect_multi_parameter_anomaly(singles, current_time)
                 ELSE [raised |-> FALSE, result |-> <<>>])

\* "baseline = self.baselines[patient_id]" onwards.  An exception raised in
\* the loop leaves the function with the baselines as they are by then.
DetectAgainst(bs1, hist, patient_id, health_data, current_time) ==
    IF \E i \in 1..Len(health_data) : SingleRaises(health_data[i][1], health_data[i][2])
    THEN [baselines |-> bs1, anomaly_history |-> hist,
          raised |-> TRUE, results |-> <<>>]
    ELSE CorrelateResults(bs1, hist, patient_id,
                          SingleResults(health_data, 1, bs1[patient_id], current_time),
                          current_time)

\* An exception raised by the baseline update of a new subject propagates.
detect_anomalies(bs, hist, patient_id, health_data, current_time) ==
    IF patient_id \notin DOMAIN bs /\ UpdateRaises(health_data)
    THEN [baselines |-> EnsureBaseline(bs, patient_id, health_data, current_time),
          anomaly_history |-> hist, raised |-> TRUE, results |-> <<>>]
    ELSE DetectAgainst(EnsureBaseline(bs, patient_id, health_data, current_time),
                       hist, patient_id, health_data, current_time)

(***************************************************************************)
(* get_patient_history                                                     *)
(***************************************************************************)
\* The anomalies of a history with timestamp >= cutoff_time.
RecentAnomalies(history, cutoff_time) ==
    SelectSeq(history, LAMBDA anomaly : anomaly.timestamp >= cutoff_time)

\* Variant: every key that occurs is entered with the count 1.
Breakdown_presence(recent_anomalies, field) ==
    [key \in {recent_anomalies[i][field] : i \in 1..Len(recent_anomalies)} |-> 1]

\* A breakdown dict: each value of the field that occurs, with its count.
Breakdown(recent_anomalies, field) ==
    [key \in {recent_anomalies[i][field] : i \in 1..Len(recent_anomalies)} |->
        Cardinality({i \in 1..Len(recent_anomalies) :
                        recent_anomalies[i][field] = key})]

\* sum(confidences) / len(confidences), left at 0.0 for an empty list.
AverageConfidence(recent_anomalies) ==
    IF recent_anomalies # <<>>
    THEN DivPos(SumConfidence(recent_anomalies, 1), R(Len(recent_anomalies)))
    ELSE R(0)

\* The summary dict of a subject that has a history list.
SummaryOf(recent_anomalies) ==
    [total_anomalies    |-> Len(recent_anomalies),
     severity_breakdown |-> Breakdown(recent_anomalies, "severity"),
     type_breakdown     |-> Breakdown(recent_anomalies, "anomaly_type"),
     average_confidence |-> AverageConfidence(recent_anomalies)]

\* The dict returned for a subject that has a history list.
HistoryReply(bs, patient_id, recent_anomalies) ==
    [patient_id |-> patient_id,
     history    |-> recent_anomalies,
     summary    |-> SummaryOf(recent_anomalies),
     baseline   |-> IF patient_id \in DOMAIN bs THEN <<bs[patient_id]>> ELSE <<>>]

\* The returned dict; a dict is a function of its keys, {} the function of
\* no key.
get_patient_history(bs, hist, patient_id, hours, current_time) ==
    IF patient_id \notin DOMAIN hist
    THEN [patient_id |-> patient_id, history |-> <<>>, summary |-> <<>>]
    ELSE HistoryReply(bs, patient_id,
                      RecentAnomalies(hist[patient_id], current_time - hours))

(***************************************************************************)
(* Inputs.                                                                 *)
(***************************************************************************)
Subjects == {"p1", "p2"}

Observations ==
    { << <<"heart_rate", R(70)>> >>,
      << <<"heart_rate", R(80)>> >>,
      << <<"heart_rate", R(130)>> >>,
      << <<"heart_rate", R(45)>>, <<"glucose", R(100)>> >>,
      << <<"glucose", R(100)>> >>,
      << <<"heart_rate", R(125)>>, <<"oxygen_saturation", R(89)>> >>,
      << <<"oxygen_saturation", R(96)>>, <<"temperature", Q(365, 10)>> >>,
      << <<"heart_rate", R(70)>>, <<"blood_pressure_diastolic", R(80)>> >> }

\* Heart-rate readings at and just above 70, one per severity tier.
TierObservations ==
    { << <<"heart_rate", R(70)>> >>,
      << <<"heart_rate", Q(1401, 20)>> >>,
      << <<"heart_rate", Q(351, 5)>> >>,
      << <<"heart_rate", Q(352, 5)>> >>,
      << <<"heart_rate", R(80)>> >>,
      << <<"oxygen_saturation", R(94)>> >>,
      << <<"heart_rate", R(125)>>, <<"oxygen_saturation", R(89)>> >> }

\* Readings at and around the thresholds of the risk-factor rules, and one
\* that leaves their parameters at the configured ranges.
RiskObservations ==
    { << <<"glucose", R(100)>> >>,
      << <<"heart_rate", R(130)>> >>,
      << <<"heart_rate", R(120)>> >>,
      << <<"heart_rate", R(50)>> >>,
      << <<"heart_rate", R(45)>> >>,
      << <<"oxygen_saturation", R(92)>> >>,
      << <<"oxygen_saturation", R(89)>> >>,
      << <<"blood_pressure_systolic", R(190)>> >>,
      << <<"blood_pressure_systolic", R(180)>> >>,
      << <<"blood_pressure_systolic", R(85)>> >> }

\* Readings for a subject with a long history.
HistObservations ==
    { << <<"heart_rate", R(70)>> >>,
      << <<"heart_rate", R(80)>> >>,
      << <<"heart_rate", R(130)>> >>,
      << <<"heart_rate", R(125)>>, <<"oxygen_saturation", R(89)>> >> }

\* Readings and time windows for history queries.
QueryObservations ==
    { << <<"heart_rate", R(70)>> >>,
      << <<"heart_rate", R(130)>> >>,
      << <<"heart_rate", R(125)>>, <<"oxygen_saturation", R(89)>> >> }

QueryHours == 0..MaxHours

\* Readings sent from two threads.
ThreadObservations ==
    { << <<"heart_rate", R(70)>> >>,
      << <<"heart_rate", R(130)>> >> }

\* Payloads with untracked names and with values that are not numbers.
PayloadObservations ==
    { << <<"heart_rate", R(70)>> >>,
      << <<"heart_rate", R(80)>> >>,
      << <<"heart_rate", R(70)>>, <<"blood_pressure_diastolic", R(80)>> >>,
      << <<"ecg", R(5)>>, <<"heart_rate", R(130)>> >>,
      << <<"note", NonNumeric>>, <<"heart_rate", R(80)>> >>,
      << <<"heart_rate", R(70)>>, <<"glucose", NonNumeric>> >>,
      << <<"heart_rate", NonNumeric>> >> }

(***************************************************************************)
(* State machine.                                                          *)
(***************************************************************************)
NoCall ==
    [op |-> "none", patient_id |-> "", health_data |-> <<>>, raised |-> FALSE,
     results |-> <<>>, pre_baselines |-> <<>>, pre_history |-> <<>>]

NoQuery == [hours |-> 0, reply |-> <<>>]

Threads == {"t1", "t2"}

\* A thread that is in no call.
IdleThread ==
    [pc |-> "idle", op |-> "none", patient_id |-> "", health_data |-> <<>>,
     current_time |-> 0, shared |-> FALSE, baseline |-> <<>>, sample_count |-> 0,
     k |-> 0, results |-> <<>>, pre_baseline |-> <<>>, pre_history |-> <<>>]

\* self.config["thresholds"] as _load_config builds it without a file.
default_config ==
    [thresholds |-> [mild_deviation     |-> Q(3, 2),
                     moderate_deviation |-> R(2),
                     severe_deviation   |-> R(3),
                     critical_deviation |-> R(4)]]

\* A caller that is in no get_config_manager call.
IdleCaller == [pc |-> "idle", built |-> <<>>, received |-> {}, n |-> 0]

\* The process before the first get_config_manager call, with the given
\* environment and configuration file.
ManagerAt(env, file) ==
    /\ environ = env
    /\ config_file = file
    /\ config_manager = <<>>
    /\ config_lock = ""
    /\ callers = [t \in Threads |-> IdleCaller]
    /\ constructed = 0

InitDetector ==
    /\ baselines = <<>>
    /\ anomaly_history = <<>>
    /\ now = 0
    /\ calls = 0
    /\ last = NoCall
    /\ returned_log = [s \in Subjects |-> <<>>]
    /\ query = NoQuery
    /\ threads = [t \in Threads |-> IdleThread]
    /\ solo = [baselines |-> <<>>, anomaly_history |-> <<>>]
    /\ overlapped = {}
    /\ applied = [s \in Subjects |-> 0]

Init ==
    /\ InitDetector
    /\ config = default_config
    /\ ManagerAt(<<>>, <<>>)

UpdatePatientBaseline(patient_id, health_data) ==
    /\ calls < MaxCalls
    /\ baselines' = update_patient_baseline(baselines, patient_id, health_data, now)
    /\ last' = [op |-> "update_patient_baseline", patient_id |-> patient_id,
                health_data |-> health_data, raised |-> UpdateRaises(health_data),
                results |-> <<>>,
                pre_baselines |-> baselines, pre_history |-> anomaly_history]
    /\ now' = now + 1
    /\ calls' = calls + 1
    /\ UNCHANGED <<anomaly_history, returned_log, query, thread_vars, config,
                   manager_vars>>

\* The assignments of one detect_anomalies call whose outcome is d.
CommitDetect(d, patient_id, health_data) ==
    /\ baselines' = d.baselines
    /\ anomaly_history' = d.anomaly_history
    /\ last' = [op |-> "detect_anomalies", patient_id |-> patient_id,
                health_data |-> health_data, raised |-> d.raised,
                results |-> d.results,
                pre_baselines |-> baselines, pre_history |-> anomaly_history]
    /\ returned_log' = [returned_log EXCEPT ![patient_id] = @ \o d.results]
    /\ UNCHANGED <<query, thread_vars, config, manager_vars>>

DetectAnomalies(patient_id, health_data) ==
    /\ calls < MaxCalls
    /\ CommitDetect(detect_anomalies(baselines, anomaly_history, patient_id,
                                     health_data, now),
                    patient_id, health_data)
    /\ now' = now + 1
    /\ calls' = calls + 1

Next ==
    \E patient_id \in Subjects, health_data \in Observations :
        \/ UpdatePatientBaseline(patient_id, health_data)
        \/ DetectAnomalies(patient_id, health_data)

Spec == Init /\ [][Next]_vars

(***************************************************************************)
(* The classifier exercised with readings near a converged baseline.       *)
(***************************************************************************)
NextTier ==
    \E patient_id \in Subjects, health_data \in TierObservations :
        \/ UpdatePatientBaseline(patient_id, health_data)
        \/ DetectAnomalies(patient_id, health_data)

SpecTier == Init /\ [][NextTier]_vars

(***************************************************************************)
(* A detector whose subject p1 already has a long history: the state       *)
(* reached from Init by detect_anomalies("p1", {heart_rate: 70}) followed  *)
(* by HistPrefill calls detect_anomalies("p1", {heart_rate: 80}).          *)
(***************************************************************************)
\* detect_anomalies leaves an existing baseline alone and its results do not
\* depend on the history, so the k-th of the later calls returns what it
\* returns against the state the first call left.
HistSeed ==
    detect_anomalies(<<>>, <<>>, "p1", << <<"heart_rate", R(70)>> >>, 0)

HistPrefix ==
    [k \in 1..HistPrefill |->
        detect_anomalies(HistSeed.baselines, HistSeed.anomaly_history, "p1",
                         << <<"heart_rate", R(80)>> >>, k).results[1]]

InitHist ==
    /\ baselines = HistSeed.baselines
    /\ anomaly_history = [s \in {"p1"} |-> TrimHistory(HistPrefix)]
    /\ now = HistPrefill + 1
    /\ calls = 0
    /\ last = NoCall
    /\ returned_log = [s \in Subjects |-> IF s = "p1" THEN HistPrefix ELSE <<>>]
    /\ query = NoQuery
    /\ threads = [t \in Threads |-> IdleThread]
    /\ solo = [baselines |-> HistSeed.baselines,
               anomaly_history |-> [s \in {"p1"} |-> TrimHistory(HistPrefix)]]
    /\ overlapped = {}
    /\ applied = [s \in Subjects |-> IF s = "p1" THEN 1 ELSE 0]
    /\ config = default_config
    /\ ManagerAt(<<>>, <<>>)

NextHist ==
    \E patient_id \in Subjects, health_data \in HistObservations :
        \/ UpdatePatientBaseline(patient_id, health_data)
        \/ DetectAnomalies(patient_id, health_data)

SpecHist == InitHist /\ [][NextHist]_vars

(***************************************************************************)
(* Vocabulary of the properties.                                           *)
(***************************************************************************)
IsDetect == last.op = "detect_anomalies"

IsUpdate == last.op = "update_patient_baseline"

HadBaseline == last.patient_id \in DOMAIN last.pre_baselines

IntervalOf(baseline, p) == baseline[param_mapping[p]]

Outside(value, interval) == Lt(value, interval[1]) \/ Lt(interval[2], value)

\* The tracked parameters of an observation that lie outside a baseline.
OutOfRange(health_data, baseline) ==
    { p \in TrackedParams :
        Has(health_data, p) /\ Outside(Get(health_data, p), IntervalOf(baseline, p)) }

IndicesOfType(results, anomaly_type) ==
    { i \in 1..Len(results) : results[i].anomaly_type = anomaly_type }

SingleIndices(results) ==
    { i \in 1..Len(results) : results[i].anomaly_type # "multi_parameter" }

WithinConfigured(health_data) ==
    \A i \in 1..Len(health_data) :
        /\ health_data[i][1] \in DOMAIN normal_ranges
        /\ Leq(normal_ranges[health_data[i][1]][1], health_data[i][2])
        /\ Leq(health_data[i][2], normal_ranges[health_data[i][1]][2])

\* Every result the detector holds or has just returned.
StoredResults ==
    UNION { { anomaly_history[s][i] : i \in 1..Len(anomaly_history[s]) } :
            s \in DOMAIN anomaly_history }
    \cup { last.results[i] : i \in 1..Len(last.results) }

\* The baseline the last detect_anomalies call judged the observation against.
JudgedBaseline == baselines[last.patient_id]

(***************************************************************************)
(* C1: for a subject that already has a baseline, detect_anomalies returns *)
(* exactly one single-parameter result for each tracked parameter whose    *)
(* value lies strictly outside its current baseline interval, and none for *)
(* any other parameter.                                                    *)
(***************************************************************************)
C1_OneResultPerOutOfRangeParam ==
    (IsDetect /\ HadBaseline) =>
        /\ ~last.raised
        /\ \A p \in TrackedParams :
              Cardinality(IndicesOfType(last.results, type_mapping[p])) =
                  IF p \in OutOfRange(last.health_data, last.pre_baselines[last.patient_id])
                  THEN 1 ELSE 0
        /\ \A i \in SingleIndices(last.results) :
              \E p \in TrackedParams : last.results[i].anomaly_type = type_mapping[p]

(***************************************************************************)
(* C2: in every reachable state a detect_anomalies call whose measurements *)
(* all lie within the configured normal range of their parameter returns   *)
(* an empty list and raises no error.                                      *)
(***************************************************************************)
C2_InRangeReturnsEmpty ==
    (IsDetect /\ WithinConfigured(last.health_data)) =>
        (~last.raised /\ last.results = <<>>)

(***************************************************************************)
(* C3: detect_anomalies returns a MULTI_PARAMETER result iff the           *)
(* observation produced two or more single-parameter results; it is then   *)
(* the last element of the returned list and its value is the number of    *)
(* single-parameter results.                                               *)
(***************************************************************************)
C3_MultiIffTwoOrMore ==
    IsDetect =>
        LET n == Cardinality(OutOfRange(last.health_data, JudgedBaseline))
        IN  IF n >= 2
            THEN /\ ~last.raised
                 /\ Len(last.results) = n + 1
                 /\ IndicesOfType(last.results, "multi_parameter") = {n + 1}
                 /\ last.results[n + 1].value = R(n)
            ELSE IndicesOfType(last.results, "multi_parameter") = {}

(***************************************************************************)
(* C4: the severity of the multi-parameter result is the highest-ranked    *)
(* severity among the contributing single-parameter results.               *)
(***************************************************************************)
C4_MultiSeverityIsMax ==
    (IsDetect /\ Cardinality(OutOfRange(last.health_data, JudgedBaseline)) >= 2) =>
        \E m \in IndicesOfType(last.results, "multi_parameter") :
            /\ \A i \in SingleIndices(last.results) :
                  severity_scores[last.results[i].severity]
                      <= severity_scores[last.results[m].severity]
            /\ \E i \in SingleIndices(last.results) :
                  last.results[i].severity = last.results[m].severity

(***************************************************************************)
(* C5: for numeric measurements detect_anomalies always completes by       *)
(* returning a result list; no error reaches the caller.                   *)
(***************************************************************************)
C5_NoErrorPropagates == IsDetect => ~last.raised

(***************************************************************************)
(* C6: each subject's history holds at most 100 entries and is, in order,  *)
(* the most recent (up to 100) results ever returned for that subject.     *)
(***************************************************************************)
MostRecent(log) ==
    IF Len(log) <= HistoryCapacity THEN log
    ELSE [i \in 1..HistoryCapacity |-> log[Len(log) - HistoryCapacity + i]]

C6_HistoryIsMostRecent ==
    \A s \in Subjects :
        IF s \in DOMAIN anomaly_history
        THEN /\ Len(anomaly_history[s]) <= HistoryCapacity
             /\ anomaly_history[s] = MostRecent(returned_log[s])
        ELSE returned_log[s] = <<>>

C6_Evicted ==
    /\ "p1" \in DOMAIN anomaly_history
    /\ Len(returned_log["p1"]) > HistoryCapacity
    /\ Len(anomaly_history["p1"]) = HistoryCapacity
    /\ IsDetect /\ last.patient_id = "p1" /\ last.results # <<>>

(***************************************************************************)
(* C7: every tracked parameter's baseline interval of every subject        *)
(* satisfies min <= max after any sequence of calls.                       *)
(***************************************************************************)
C7_MinLeqMax ==
    \A s \in DOMAIN baselines : \A p \in TrackedParams :
        Leq(IntervalOf(baselines[s], p)[1], IntervalOf(baselines[s], p)[2])

\* An update has moved an interval that was not collapsed to a point, and
\* another interval of the same subject has converged.
C7_Updated ==
    /\ IsUpdate
    /\ baselines[last.patient_id].sample_count >= 2
    /\ \E p \in TrackedParams :
          /\ Has(last.health_data, p)
          /\ IntervalOf(baselines[last.patient_id], p)
                 # IntervalOf(last.pre_baselines[last.patient_id], p)
          /\ Lt(IntervalOf(baselines[last.patient_id], p)[1],
                IntervalOf(baselines[last.patient_id], p)[2])
    /\ \E p \in TrackedParams :
          IntervalOf(baselines[last.patient_id], p)[1]
              = IntervalOf(baselines[last.patient_id], p)[2]

(***************************************************************************)
(* C8: every result returned or stored in history has a confidence in      *)
(* [0, 0.95].                                                              *)
(***************************************************************************)
C8_ConfidenceBounded ==
    \A r \in StoredResults :
        Leq(R(0), r.confidence) /\ Leq(r.confidence, Q(19, 20))

C8_CappedAndUncapped ==
    /\ \E r \in StoredResults : r.confidence = Q(19, 20)
    /\ \E r \in StoredResults : Lt(r.confidence, Q(19, 20))

(***************************************************************************)
(* C9: severity is a non-decreasing function of relative deviation, with   *)
(* LOW below 0.10, MEDIUM below 0.25, HIGH below 0.50 and CRITICAL from    *)
(* 0.50 upward.                                                            *)
(***************************************************************************)
DeviationOf(r) == RelativeDeviation(r.value, r.normal_range[1], r.normal_range[2])

SingleStored == { r \in StoredResults : r.anomaly_type # "multi_parameter" }

C9_SeverityMonotone ==
    /\ \A r1, r2 \in SingleStored :
          Leq(DeviationOf(r1), DeviationOf(r2)) =>
              severity_scores[r1.severity] <= severity_scores[r2.severity]
    /\ \A r \in SingleStored :
          /\ (r.severity = "low") <=> Lt(DeviationOf(r), Q(10, 100))
          /\ (r.severity = "medium") <=>
                 (Leq(Q(10, 100), DeviationOf(r)) /\ Lt(DeviationOf(r), Q(25, 100)))
          /\ (r.severity = "high") <=>
                 (Leq(Q(25, 100), DeviationOf(r)) /\ Lt(DeviationOf(r), Q(50, 100)))
          /\ (r.severity = "critical") <=> Leq(Q(50, 100), DeviationOf(r))

\* Two stored results in neighbouring tiers, the larger deviation in the
\* higher one.
C9_TwoTiers ==
    \E r1, r2 \in SingleStored :
        /\ Lt(DeviationOf(r1), DeviationOf(r2))
        /\ r1.severity = "medium"
        /\ r2.severity = "high"

(***************************************************************************)
(* C10 as stated: every detect_anomalies call applies a baseline update,   *)
(* so the subject's sample_count increases by exactly 1 on each processed  *)
(* observation.                                                            *)
(***************************************************************************)
PreSampleCount ==
    IF HadBaseline THEN last.pre_baselines[last.patient_id].sample_count ELSE 0

C10_EveryDetectUpdates ==
    IsDetect => baselines[last.patient_id].sample_count = PreSampleCount + 1

(***************************************************************************)
(* C10 amended: detect_anomalies applies a baseline update only for a      *)
(* subject that has no baseline yet, which leaves sample_count = 1; for a  *)
(* subject that already has a baseline it leaves the baseline, and so the  *)
(* sample_count, unchanged.                                                *)
(***************************************************************************)
C10_DetectUpdatesOnlyOnCreate ==
    IsDetect =>
        IF HadBaseline
        THEN baselines[last.patient_id] = last.pre_baselines[last.patient_id]
        ELSE /\ baselines[last.patient_id].sample_count = 1
             /\ \A p \in TrackedParams :
                   Has(last.health_data, p) =>
                       IntervalOf(baselines[last.patient_id], p)
                           = <<Get(last.health_data, p), Get(last.health_data, p)>>

C10_SecondDetect ==
    /\ IsDetect
    /\ HadBaseline
    /\ last.pre_baselines[last.patient_id].sample_count = 1
    /\ baselines[last.patient_id].sample_count = 1
    /\ last.results # <<>>

(***************************************************************************)
(* The detector fed forward-compatible and malformed payloads.             *)
(***************************************************************************)
NextPayload ==
    \E patient_id \in Subjects, health_data \in PayloadObservations :
        \/ UpdatePatientBaseline(patient_id, health_data)
        \/ DetectAnomalies(patient_id, health_data)

SpecPayload == Init /\ [][NextPayload]_vars

\* The time the last call read from the clock.
CallTime == now - 1

\* The detector constructed with or without a configuration file that
\* gives a "thresholds" table of its own.
DetectorConfigs ==
    { default_config,
      [thresholds |-> [mild_deviation     |-> Q(1, 20),
                       moderate_deviation |-> Q(1, 10),
                       severe_deviation   |-> Q(1, 4),
                       critical_deviation |-> Q(1, 2)]] }

InitThresholds ==
    /\ InitDetector
    /\ config \in DetectorConfigs
    /\ ManagerAt(<<>>, <<>>)

SpecThresholds == InitThresholds /\ [][NextTier]_vars

\* One subject observed around the risk-factor thresholds.
NextRisk ==
    \E health_data \in RiskObservations :
        \/ UpdatePatientBaseline("p1", health_data)
        \/ DetectAnomalies("p1", health_data)

SpecRisk == Init /\ [][NextRisk]_vars

(***************************************************************************)
(* The detector with history queries.                                      *)
(***************************************************************************)
GetPatientHistory(patient_id, hours) ==
    /\ query' = [hours |-> hours,
                 reply |-> get_patient_history(baselines, anomaly_history,
                                               patient_id, hours, now)]
    /\ last' = [op |-> "get_patient_history", patient_id |-> patient_id,
                health_data |-> <<>>, raised |-> FALSE, results |-> <<>>,
                pre_baselines |-> baselines, pre_history |-> anomaly_history]
    /\ UNCHANGED <<baselines, anomaly_history, now, calls, returned_log, thread_vars,
                   config, manager_vars>>

NextQuery ==
    \/ \E patient_id \in Subjects, health_data \in QueryObservations :
          \/ UpdatePatientBaseline(patient_id, health_data)
          \/ DetectAnomalies(patient_id, health_data)
    \/ \E patient_id \in Subjects, hours \in QueryHours :
          GetPatientHistory(patient_id, hours)

SpecQuery == Init /\ [][NextQuery]_vars

(***************************************************************************)
(* The detector called from two threads.                                   *)
(***************************************************************************)
\* dict.get(key): the Optional entry of a dict.
Lookup(dict, key) == IF key \in DOMAIN dict THEN <<dict[key]>> ELSE <<>>

\* dict[key] = value.
Store(dict, key, value) ==
    [q \in DOMAIN dict \cup {key} |-> IF q = key THEN value ELSE dict[q]]

OtherThread(t) == CHOOSE u \in Threads : u # t

InCallFor(th, patient_id) == th.pc # "idle" /\ th.patient_id = patient_id

\* The locals of a thread entering a call.
EnterCall(op, patient_id, health_data, current_time, bs, hist) ==
    [IdleThread EXCEPT !.op = op, !.patient_id = patient_id,
                       !.health_data = health_data, !.current_time = current_time,
                       !.pre_baseline = Lookup(bs, patient_id),
                       !.pre_history = Lookup(hist, patient_id)]

\* "Get existing baseline or create new one" and the two weights' source.
EnterUpdate(th, bs) ==
    [th EXCEPT !.pc = "update_blocks",
               !.shared = th.patient_id \in DOMAIN bs,
               !.baseline = IF th.patient_id \in DOMAIN bs THEN <<>>
                            ELSE <<NewBaseline(th.patient_id, th.current_time)>>,
               !.sample_count =
                   NextSampleCount(th.patient_id \in DOMAIN bs,
                                   IF th.patient_id \in DOMAIN bs
                                   THEN bs[th.patient_id].sample_count ELSE 1),
               !.k = 1]

\* The first if-block at or behind block k whose parameter is present, or
\* Len(ParamOrder) + 1.
NextPresent(health_data, k) ==
    LET present == { i \in k..Len(ParamOrder) : Has(health_data, ParamOrder[i]) }
    IN  IF present = {} THEN Len(ParamOrder) + 1
        ELSE CHOOSE i \in present : \A j \in present : i <= j

\* The object the local name baseline refers to.
LocalBaseline(th, bs) == IF th.shared THEN bs[th.patient_id] ELSE th.baseline[1]

\* The object after the assignment of the if-block of parameter p.
AssignBlock(object, th, p) ==
    [object EXCEPT ![param_mapping[p]] =
        WeightedInterval(@, Get(th.health_data, p),
                         Sub(R(1), DivPos(R(1), R(th.sample_count))),
                         DivPos(R(1), R(th.sample_count)))]

\* The ghost state: the call run alone on solo.
SoloUpdate(patient_id, health_data) ==
    [solo EXCEPT !.baselines =
        update_patient_baseline(@, patient_id, health_data, now)]

SoloDetect(d) == [baselines |-> d.baselines, anomaly_history |-> d.anomaly_history]

Overlap(t, patient_id) ==
    IF InCallFor(threads[OtherThread(t)], patient_id)
    THEN overlapped \cup {patient_id} ELSE overlapped

\* A thread calls update_patient_baseline and runs it up to the weights.
BeginUpdate(t, patient_id, health_data) ==
    /\ threads[t].pc = "idle"
    /\ calls < MaxThreadCalls
    /\ threads' = [threads EXCEPT ![t] =
                      EnterUpdate(EnterCall("update_patient_baseline", patient_id,
                                            health_data, now, baselines,
                                            anomaly_history),
                                  baselines)]
    /\ solo' = SoloUpdate(patient_id, health_data)
    /\ overlapped' = Overlap(t, patient_id)
    /\ now' = now + 1
    /\ calls' = calls + 1
    /\ UNCHANGED <<baselines, anomaly_history, last, returned_log, query, applied>>
    /\ UNCHANGED <<config, manager_vars>>

\* A thread calls detect_anomalies and tests "patient_id not in self.baselines".
BeginDetect(t, patient_id, health_data) ==
    /\ threads[t].pc = "idle"
    /\ calls < MaxThreadCalls
    /\ threads' = [threads EXCEPT ![t] =
                      [EnterCall("detect_anomalies", patient_id, health_data, now,
                                 baselines, anomaly_history)
                       EXCEPT !.pc = IF patient_id \notin DOMAIN baselines
                                     THEN "inner_update" ELSE "detect"]]
    /\ solo' = SoloDetect(detect_anomalies(solo.baselines, solo.anomaly_history,
                                           patient_id, health_data, now))
    /\ overlapped' = Overlap(t, patient_id)
    /\ now' = now + 1
    /\ calls' = calls + 1
    /\ UNCHANGED <<baselines, anomaly_history, last, returned_log, query, applied>>
    /\ UNCHANGED <<config, manager_vars>>

\* detect_anomalies enters update_patient_baseline.
InnerUpdate(t) ==
    /\ threads[t].pc = "inner_update"
    /\ threads' = [threads EXCEPT ![t] = EnterUpdate(@, baselines)]
    /\ UNCHANGED <<baselines, anomaly_history, now, calls, last, returned_log,
                   query, solo, overlapped, applied>>
    /\ UNCHANGED <<config, manager_vars>>

\* The call of thread t ends, by a return or by an exception.
Return(t, results) ==
    /\ threads' = [threads EXCEPT ![t] = IdleThread]
    /\ returned_log' = [returned_log EXCEPT ![threads[t].patient_id] = @ \o results]

\* The next if-block whose parameter is present: its assignment to a field
\* of the object, or the TypeError of its arithmetic.
UpdateBlock(t, k) ==
    /\ threads[t].pc = "update_blocks"
    /\ k = NextPresent(threads[t].health_data, threads[t].k)
    /\ k <= Len(ParamOrder)
    /\ IF ~IsNumeric(Get(threads[t].health_data, ParamOrder[k]))
       THEN /\ Return(t, <<>>)
            /\ UNCHANGED baselines
       ELSE IF threads[t].shared
       THEN /\ baselines' = [baselines EXCEPT ![threads[t].patient_id] =
                                AssignBlock(@, threads[t], ParamOrder[k])]
            /\ threads' = [threads EXCEPT ![t].k = k + 1]
            /\ UNCHANGED returned_log
       ELSE /\ threads' = [threads EXCEPT
                              ![t].k = k + 1,
                              ![t].baseline = <<AssignBlock(@[1], threads[t],
                                                            ParamOrder[k])>>]
            /\ UNCHANGED <<baselines, returned_log>>
    /\ UNCHANGED <<anomaly_history, now, calls, last, query, solo, overlapped, applied>>
    /\ UNCHANGED <<config, manager_vars>>

\* The object with last_updated and sample_count assigned.
Stamped(object, th) ==
    [object EXCEPT !.last_updated = th.current_time, !.sample_count = th.sample_count]

\* Variant: the store replaces the whole dict by the one entry.
StoreBaseline_only(bs, patient_id, object) ==
    [q \in {patient_id} |-> object]

\* self.baselines[patient_id] = baseline.
StoreBaseline(bs, patient_id, object) ==
    Store(bs, patient_id, object)

\* A thread whose local name refers to the stored object keeps that object
\* when another thread stores a different one under the same subject.
Detached(th, patient_id, bs) ==
    IF InCallFor(th, patient_id) /\ th.shared
    THEN [th EXCEPT !.shared = FALSE, !.baseline = <<bs[patient_id]>>]
    ELSE th

\* The threads after thread t has run the last statements of
\* update_patient_baseline: it returns, or goes on in detect_anomalies.
AfterUpdate(t, th) ==
    [u \in Threads |->
        IF u = t
        THEN IF th.op = "update_patient_baseline" THEN IdleThread
             ELSE [th EXCEPT !.pc = "detect", !.shared = FALSE, !.baseline = <<>>]
        ELSE IF th.shared THEN threads[u]
             ELSE Detached(threads[u], th.patient_id, baselines)]

\* "baseline.last_updated = ..." to the return of update_patient_baseline.
UpdateCommit(t) ==
    /\ threads[t].pc = "update_blocks"
    /\ NextPresent(threads[t].health_data, threads[t].k) > Len(ParamOrder)
    /\ baselines' = StoreBaseline(baselines, threads[t].patient_id,
                                  Stamped(LocalBaseline(threads[t], baselines),
                                          threads[t]))
    /\ threads' = AfterUpdate(t, threads[t])
    /\ applied' = [applied EXCEPT ![threads[t].patient_id] = @ + 1]
    /\ UNCHANGED <<anomaly_history, now, calls, last, returned_log, query, solo,
                   overlapped>>
    /\ UNCHANGED <<config, manager_vars>>

\* The outcome of "Detect anomalies for each parameter" and "Detect
\* multi-parameter anomalies" for a thread: it holds its results, or an
\* exception has ended its call.
AfterDetect(t, singles, multi) ==
    IF multi.raised
    THEN Return(t, <<>>)
    ELSE /\ threads' = [threads EXCEPT ![t].pc = "history_check",
                                       ![t].results = singles \o multi.result]
         /\ UNCHANGED returned_log

\* "baseline = self.baselines[patient_id]" to the multi-parameter step.
Detect(t) ==
    /\ threads[t].pc = "detect"
    /\ IF \E i \in 1..Len(threads[t].health_data) :
             SingleRaises(threads[t].health_data[i][1], threads[t].health_data[i][2])
       THEN Return(t, <<>>)
       ELSE AfterDetect(t,
                SingleResults(threads[t].health_data, 1,
                              baselines[threads[t].patient_id],
                              threads[t].current_time),
                IF Len(SingleResults(threads[t].health_data, 1,
                                     baselines[threads[t].patient_id],
                                     threads[t].current_time)) > 1
                THEN detect_multi_parameter_anomaly(
                         SingleResults(threads[t].health_data, 1,
                                       baselines[threads[t].patient_id],
                                       threads[t].current_time),
                         threads[t].current_time)
                ELSE [raised |-> FALSE, result |-> <<>>])
    /\ UNCHANGED <<baselines, anomaly_history, now, calls, last, query, solo,
                   overlapped, applied>>
    /\ UNCHANGED <<config, manager_vars>>

\* "if patient_id not in self.anomaly_history".
HistoryCheck(t) ==
    /\ threads[t].pc = "history_check"
    /\ threads' = [threads EXCEPT ![t].pc =
                      IF threads[t].patient_id \notin DOMAIN anomaly_history
                      THEN "history_init" ELSE "history_extend"]
    /\ UNCHANGED <<baselines, anomaly_history, now, calls, last, returned_log,
                   query, solo, overlapped, applied>>
    /\ UNCHANGED <<config, manager_vars>>

\* "self.anomaly_history[patient_id] = []".
HistoryInit(t) ==
    /\ threads[t].pc = "history_init"
    /\ anomaly_history' = Store(anomaly_history, threads[t].patient_id, <<>>)
    /\ threads' = [threads EXCEPT ![t].pc = "history_extend"]
    /\ UNCHANGED <<baselines, now, calls, last, returned_log, query, solo,
                   overlapped, applied>>
    /\ UNCHANGED <<config, manager_vars>>

\* ".extend(results)", the truncation and the return.
HistoryExtend(t) ==
    /\ threads[t].pc = "history_extend"
    /\ anomaly_history' = [anomaly_history EXCEPT ![threads[t].patient_id] =
                              TrimHistory(@ \o threads[t].results)]
    /\ Return(t, threads[t].results)
    /\ UNCHANGED <<baselines, now, calls, last, query, solo, overlapped, applied>>
    /\ UNCHANGED <<config, manager_vars>>

NextThreads ==
    \E t \in Threads :
        \/ \E patient_id \in Subjects, health_data \in ThreadObservations :
              \/ BeginUpdate(t, patient_id, health_data)
              \/ BeginDetect(t, patient_id, health_data)
        \/ InnerUpdate(t)
        \/ \E k \in 1..Len(ParamOrder) : UpdateBlock(t, k)
        \/ UpdateCommit(t)
        \/ Detect(t)
        \/ HistoryCheck(t)
        \/ HistoryInit(t)
        \/ HistoryExtend(t)

SpecThreads == Init /\ [][NextThreads]_vars

(***************************************************************************)
(* config_manager.py: the ConfigurationManager built by                    *)
(* get_config_manager.  A Python value is a record [kind, text]: None, a   *)
(* str or an int with its decimal text, so that 7000 and "7000" differ.    *)
(***************************************************************************)
NoneValue == [kind |-> "none", text |-> ""]

StrValue(text) == [kind |-> "str", text |-> text]

IntValue(text) == [kind |-> "int", text |-> text]

\* int(value) for the texts the model uses; a text outside the table is
\* not a decimal literal and int() raises ValueError on it.
IntLiterals == ("0" :> 0) @@ ("7000" :> 7000) @@ ("8000" :> 8000)

\* The fields of a ConfigValue that construction reads or writes;
\* allowed_values {} and min_value/max_value <<>> are None.
ConfigValue(value, config_type, allowed_values, min_value, max_value) ==
    [value |-> value, config_type |-> config_type,
     allowed_values |-> allowed_values,
     min_value |-> min_value, max_value |-> max_value,
     last_modified |-> <<>>]

\* Two of the rows of default_rules: an int with a range and a string with
\* allowed values.
default_rules ==
    ("api_port" :> ConfigValue(IntValue("8000"), "int", {}, <<1>>, <<65535>>))
    @@ ("log_level" :> ConfigValue(StrValue("INFO"), "string",
                                   { StrValue("DEBUG"), StrValue("INFO"),
                                     StrValue("WARNING"), StrValue("ERROR"),
                                     StrValue("CRITICAL") },
                                   <<>>, <<>>))

\* config_key = key[len(env_prefix):].lower() for the variables modelled.
EnvKeys ==
    ("SWASTHYALINK_API_PORT" :> "api_port")
    @@ ("SWASTHYALINK_LOG_LEVEL" :> "log_level")
    @@ ("SWASTHYALINK_REGION" :> "region")

\* The values each variable may hold when it is set.
EnvTexts ==
    ("SWASTHYALINK_API_PORT" :> {"7000", "0", "abc"})
    @@ ("SWASTHYALINK_LOG_LEVEL" :> {"DEBUG", "verbose"})
    @@ ("SWASTHYALINK_REGION" :> {"south"})

Environments ==
    UNION { { env \in [names -> {"7000", "0", "abc", "DEBUG", "verbose", "south"}] :
                \A name \in names : env[name] \in EnvTexts[name] } :
            names \in SUBSET (DOMAIN EnvKeys) }

\* config/app_config.json: absent, written by hand with one key, or as a
\* previous run left it.
ConfigFiles ==
    { <<>>,
      << ("api_port" :> default_rules["api_port"]) >>,
      << default_rules >> }

\* The value after the type validation, <<>> when that validation fails.
\* Only config_type "int" and "string" occur in the rows modelled.
Typed(config_value, value) ==
    IF config_value.config_type = "int"
    THEN IF value.kind # "none" /\ value.text \in DOMAIN IntLiterals
         THEN << IntValue(value.text) >>
         ELSE <<>>
    ELSE << value >>

\* The range validation; the rows modelled bound ints only.
InRange(config_value, typed) ==
    /\ (config_value.min_value # <<>> /\ typed.kind = "int")
           => ~(IntLiterals[typed.text] < config_value.min_value[1])
    /\ (config_value.max_value # <<>> /\ typed.kind = "int")
           => ~(IntLiterals[typed.text] > config_value.max_value[1])

\* No row modelled is required with a None value or carries a pattern.
validate_config_value(config_value, value) ==
    /\ Typed(config_value, value) # <<>>
    /\ InRange(config_value, Typed(config_value, value)[1])
    /\ config_value.allowed_values # {}
           => Typed(config_value, value)[1] \in config_value.allowed_values

\* set_config on a manager m = [config, file]: config is self._config, file
\* the configuration file, which _save_configuration rewrites.  The value
\* stored is the one passed in, not the one the validation converted.
set_config(m, key, value) ==
    IF key \notin DOMAIN m.config THEN m
    ELSE IF ~validate_config_value(m.config[key], value) THEN m
    ELSE [config |-> [m.config EXCEPT ![key] =
                         [@ EXCEPT !.value = value, !.last_modified = <<"now">>]],
          file |-> << [m.config EXCEPT ![key] =
                         [@ EXCEPT !.value = value, !.last_modified = <<"now">>]] >>]

RECURSIVE load_from_environment(_, _, _)
load_from_environment(m, env, names) ==
    IF names = {} THEN m
    ELSE load_from_environment(
             set_config(m, EnvKeys[CHOOSE name \in names : TRUE],
                        StrValue(env[CHOOSE name \in names : TRUE])),
             env, names \ {CHOOSE name \in names : TRUE})

load_configuration(file, env) ==
    load_from_environment([config |-> IF file = <<>> THEN <<>> ELSE file[1],
                           file |-> file],
                          env, DOMAIN env)

setup_validation_rules(cfg) ==
    [key \in DOMAIN cfg \cup DOMAIN default_rules |->
        IF key \in DOMAIN cfg THEN cfg[key] ELSE default_rules[key]]

\* ConfigurationManager(): the _config and the file it leaves.
ConfigurationManager(file, env) ==
    [config |-> setup_validation_rules(load_configuration(file, env).config),
     file |-> load_configuration(file, env).file]

\* No row modelled has config_type "encrypted".
get_config(cfg, key, default) ==
    IF key \in DOMAIN cfg THEN cfg[key].value ELSE default

\* Calls of get_config_manager each thread makes.
MaxGetCalls == 2

\* Where line 629 sends the holder of the lock.
RecheckTarget_skipped(manager) == "construct"

RecheckTarget(manager) ==
    IF manager = <<>> THEN "construct" ELSE "release"

\* Line 627, read without the lock.
FirstCheck(t) ==
    /\ callers[t].pc = "idle"
    /\ callers[t].n < MaxGetCalls
    /\ callers' = [callers EXCEPT ![t].n = @ + 1,
                                  ![t].pc = IF config_manager = <<>>
                                            THEN "acquire" ELSE "return"]
    /\ UNCHANGED <<environ, config_file, config_manager, config_lock, constructed>>
    /\ UNCHANGED <<detector_vars, thread_vars>>

\* Line 628: with _config_lock.
AcquireLock(t) ==
    /\ callers[t].pc = "acquire"
    /\ config_lock = ""
    /\ config_lock' = t
    /\ callers' = [callers EXCEPT ![t].pc = "recheck"]
    /\ UNCHANGED <<environ, config_file, config_manager, constructed>>
    /\ UNCHANGED <<detector_vars, thread_vars>>

\* Line 629, read under the lock.
SecondCheck(t) ==
    /\ callers[t].pc = "recheck"
    /\ callers' = [callers EXCEPT ![t].pc = RecheckTarget(config_manager)]
    /\ UNCHANGED <<environ, config_file, config_manager, config_lock, constructed>>
    /\ UNCHANGED <<detector_vars, thread_vars>>

\* Line 630, right-hand side: ConfigurationManager().
Construct(t) ==
    /\ callers[t].pc = "construct"
    /\ constructed' = constructed + 1
    /\ callers' = [callers EXCEPT
           ![t].pc = "assign",
           ![t].built = << [id |-> constructed + 1,
                            config |-> ConfigurationManager(config_file, environ).config] >>]
    /\ config_file' = ConfigurationManager(config_file, environ).file
    /\ UNCHANGED <<environ, config_manager, config_lock>>
    /\ UNCHANGED <<detector_vars, thread_vars>>

\* Line 630, the assignment to the global.
Publish(t) ==
    /\ callers[t].pc = "assign"
    /\ config_manager' = callers[t].built
    /\ callers' = [callers EXCEPT ![t].pc = "release"]
    /\ UNCHANGED <<environ, config_file, config_lock, constructed>>
    /\ UNCHANGED <<detector_vars, thread_vars>>

\* The end of the with block.
ReleaseLock(t) ==
    /\ callers[t].pc = "release"
    /\ config_lock' = ""
    /\ callers' = [callers EXCEPT ![t].pc = "return"]
    /\ UNCHANGED <<environ, config_file, config_manager, constructed>>
    /\ UNCHANGED <<detector_vars, thread_vars>>

\* Line 632: return _config_manager.
ReturnManager(t) ==
    /\ callers[t].pc = "return"
    /\ callers' = [callers EXCEPT
           ![t].pc = "idle",
           ![t].built = <<>>,
           ![t].received = @ \cup {config_manager[1].id}]
    /\ UNCHANGED <<environ, config_file, config_manager, config_lock, constructed>>
    /\ UNCHANGED <<detector_vars, thread_vars>>

InitManager ==
    /\ InitDetector
    /\ config = default_config
    /\ \E env \in Environments, file \in ConfigFiles : ManagerAt(env, file)

NextManager ==
    \/ \E t \in Threads : FirstCheck(t)
    \/ \E t \in Threads : AcquireLock(t)
    \/ \E t \in Threads : SecondCheck(t)
    \/ \E t \in Threads : Construct(t)
    \/ \E t \in Threads : Publish(t)
    \/ \E t \in Threads : ReleaseLock(t)
    \/ \E t \in Threads : ReturnManager(t)

SpecManager == InitManager /\ [][NextManager]_vars

(***************************************************************************)
(* C13: a call given a non-numeric measurement for a tracked parameter     *)
(* surfaces the error and leaves the subject's stored baseline and history *)
(* exactly as they were, also when the subject already has a baseline and  *)
(* other parameters of the observation are valid.                          *)
(***************************************************************************)
HasBadTracked(health_data) ==
    \E i \in 1..Len(health_data) :
        health_data[i][1] \in TrackedParams /\ ~IsNumeric(health_data[i][2])

C13_InvalidInputNoStateChange ==
    ((IsUpdate \/ IsDetect) /\ HasBadTracked(last.health_data)) =>
        /\ last.raised
        /\ baselines = last.pre_baselines
        /\ anomaly_history = last.pre_history

(***************************************************************************)
(* C15: parameter names the baseline does not track are skipped without    *)
(* error: the call returns the same results and leaves the same baselines  *)
(* and history as the same observation with those names removed.           *)
(***************************************************************************)
RECURSIVE TrackedOnly(_, _)
TrackedOnly(health_data, i) ==
    IF i > Len(health_data) THEN <<>>
    ELSE (IF health_data[i][1] \in TrackedParams THEN <<health_data[i]>> ELSE <<>>)
         \o TrackedOnly(health_data, i + 1)

HasUntracked(health_data) ==
    \E i \in 1..Len(health_data) : health_data[i][1] \notin TrackedParams

SameAsDetect(d) ==
    /\ last.raised = d.raised
    /\ last.results = d.results
    /\ baselines = d.baselines
    /\ anomaly_history = d.anomaly_history

C15_UntrackedSkipped ==
    /\ IsDetect =>
          SameAsDetect(detect_anomalies(last.pre_baselines, last.pre_history,
                                        last.patient_id,
                                        TrackedOnly(last.health_data, 1), CallTime))
    /\ IsUpdate =>
          /\ baselines = update_patient_baseline(last.pre_baselines, last.patient_id,
                                                 TrackedOnly(last.health_data, 1),
                                                 CallTime)
          /\ last.raised = UpdateRaises(TrackedOnly(last.health_data, 1))
          /\ anomaly_history = last.pre_history

\* A call whose payload carried an untracked name with a value that is not a
\* number returned an anomaly for the tracked parameter next to it.
C15_UntrackedPresent ==
    /\ IsDetect
    /\ ~last.raised
    /\ \E i \in 1..Len(last.health_data) :
          /\ last.health_data[i][1] \notin TrackedParams
          /\ ~IsNumeric(last.health_data[i][2])
    /\ last.results # <<>>

(***************************************************************************)
(* C17: for a subject whose heart-rate baseline is (60,100),               *)
(* detect_anomalies on {heart_rate: 130} returns exactly one result, of    *)
(* type HEART_RATE, severity CRITICAL, confidence 0.95, with Tachycardia   *)
(* among its risk factors.                                                 *)
(***************************************************************************)
C17_Case ==
    /\ IsDetect
    /\ HadBaseline
    /\ last.pre_baselines[last.patient_id].heart_rate_baseline = <<R(60), R(100)>>
    /\ last.health_data = << <<"heart_rate", R(130)>> >>

C17_HeartRate130 ==
    C17_Case =>
        /\ ~last.raised
        /\ Len(last.results) = 1
        /\ last.results[1].anomaly_type = "heart_rate"
        /\ last.results[1].severity = "critical"
        /\ last.results[1].confidence = Q(95, 100)
        /\ \E i \in 1..Len(last.results[1].risk_factors) :
              last.results[1].risk_factors[i] = "Tachycardia"

C17_Reached == C17_Case /\ last.results # <<>>

(***************************************************************************)
(* C18: for a brand-new subject a detect_anomalies call whose measurements *)
(* are all within the configured normal ranges returns no anomaly and      *)
(* leaves the subject with a stored baseline whose sample_count is 1.      *)
(***************************************************************************)
C18_Case ==
    /\ IsDetect
    /\ ~HadBaseline
    /\ WithinConfigured(last.health_data)

C18_NewSubjectInRange ==
    C18_Case =>
        /\ ~last.raised
        /\ last.results = <<>>
        /\ last.patient_id \in DOMAIN baselines
        /\ baselines[last.patient_id].sample_count = 1

C18_Reached ==
    /\ C18_Case
    /\ last.patient_id \in DOMAIN baselines
    /\ Len(last.health_data) = 2

(***************************************************************************)
(* C20: update_patient_baseline changes the interval only of the tracked   *)
(* parameters present in the observation; every tracked parameter absent   *)
(* from it keeps exactly its prior bounds (the configured range for a      *)
(* subject that had no baseline).                                          *)
(***************************************************************************)
PriorInterval(p) ==
    IF HadBaseline THEN IntervalOf(last.pre_baselines[last.patient_id], p)
    ELSE normal_ranges[p]

C20_AbsentParamsKeepBounds ==
    (IsUpdate /\ ~last.raised) =>
        \A p \in TrackedParams :
            ~Has(last.health_data, p) =>
                IntervalOf(baselines[last.patient_id], p) = PriorInterval(p)

\* An update of an existing baseline moved a present parameter and kept an
\* absent one at bounds an earlier update had given it.
C20_Reached ==
    /\ IsUpdate
    /\ HadBaseline
    /\ \E p \in TrackedParams :
          /\ ~Has(last.health_data, p)
          /\ IntervalOf(baselines[last.patient_id], p) # normal_ranges[p]
    /\ \E p \in TrackedParams :
          /\ Has(last.health_data, p)
          /\ IntervalOf(baselines[last.patient_id], p) # PriorInterval(p)

(***************************************************************************)
(* C16: get_patient_history(subject, hours) returns for any subject, also  *)
(* one never observed and one with nothing retained, a summary with the    *)
(* count of the retained results whose timestamp >= cutoff, a histogram of *)
(* their severities, a histogram of their types and their mean confidence, *)
(* which is 0.0 when there are none.                                       *)
(***************************************************************************)
IsQuery == last.op = "get_patient_history"

Retained(s) == IF s \in DOMAIN anomaly_history THEN anomaly_history[s] ELSE <<>>

InWindow == { i \in 1..Len(Retained(last.patient_id)) :
                Retained(last.patient_id)[i].timestamp >= now - query.hours }

CountWhere(field, key) ==
    Cardinality({ i \in InWindow : Retained(last.patient_id)[i][field] = key })

Histogram(dict, key) == IF key \in DOMAIN dict THEN dict[key] ELSE 0

SummaryKeys ==
    {"total_anomalies", "severity_breakdown", "type_breakdown", "average_confidence"}

AnomalyTypes == {type_mapping[p] : p \in DOMAIN type_mapping} \cup {"multi_parameter"}

C16_SummaryForAnySubject ==
    IsQuery =>
        /\ SummaryKeys \subseteq DOMAIN query.reply.summary
        /\ query.reply.summary.total_anomalies = Cardinality(InWindow)
        /\ \A sev \in AnomalySeverity :
              Histogram(query.reply.summary.severity_breakdown, sev)
                  = CountWhere("severity", sev)
        /\ \A ty \in AnomalyTypes :
              Histogram(query.reply.summary.type_breakdown, ty)
                  = CountWhere("anomaly_type", ty)
        /\ IF InWindow = {}
           THEN query.reply.summary.average_confidence = R(0)
           ELSE Mul(query.reply.summary.average_confidence, R(Cardinality(InWindow)))
                    = SumConfidence(RecentAnomalies(Retained(last.patient_id),
                                                    now - query.hours), 1)

(***************************************************************************)
(* C11: concurrent calls for the same subject are mutually exclusive in    *)
(* their effect: whatever the interleaving, once the calls have ended the  *)
(* subject's sample_count equals the initial count (0) plus the number of  *)
(* updates applied, so that no baseline update is lost, and the subject's  *)
(* history contains the results of every call.                             *)
(***************************************************************************)
AllIdle == \A t \in Threads : threads[t].pc = "idle"

StoredSampleCount(s) == IF s \in DOMAIN baselines THEN baselines[s].sample_count ELSE 0

C11_SameSubjectExclusive ==
    AllIdle =>
        \A s \in Subjects :
            /\ StoredSampleCount(s) = applied[s]
            /\ \A i \in 1..Len(returned_log[s]) :
                  \E j \in 1..Len(Retained(s)) : Retained(s)[j] = returned_log[s][i]

(***************************************************************************)
(* C12: concurrent calls for different subjects do not interfere: whatever *)
(* the interleaving, a subject whose own calls never overlapped has, once  *)
(* they have ended, the baseline and history obtained by running its calls *)
(* alone, and a step of a call for one subject never changes the baseline  *)
(* or the history of another.                                              *)
(***************************************************************************)
Quiet(s) == \A t \in Threads : ~InCallFor(threads[t], s)

AsRunAlone(s) ==
    /\ Lookup(baselines, s) = Lookup(solo.baselines, s)
    /\ Lookup(anomaly_history, s) = Lookup(solo.anomaly_history, s)

\* The subjects of the call that takes the step.
ActedOn ==
    { s \in Subjects :
        \E t \in Threads :
            /\ threads'[t] # threads[t]
            /\ s \in {threads[t].patient_id, threads'[t].patient_id} }

OthersUntouched ==
    \A s \in Subjects \ ActedOn :
        /\ Lookup(baselines', s) = Lookup(baselines, s)
        /\ Lookup(anomaly_history', s) = Lookup(anomaly_history, s)

C12_DifferentSubjectsIndependent ==
    /\ [](\A s \in Subjects : (s \notin overlapped /\ Quiet(s)) => AsRunAlone(s))
    /\ [][OthersUntouched]_vars

\* Two calls for different subjects are in progress at once, each having
\* already stored its subject's baseline.
C12_BothInProgress ==
    /\ threads["t1"].pc = "history_extend"
    /\ threads["t2"].pc = "detect"
    /\ threads["t1"].patient_id # threads["t2"].patient_id
    /\ threads["t1"].pre_baseline = <<>>
    /\ threads["t2"].pre_baseline = <<>>
    /\ threads["t1"].patient_id \in DOMAIN baselines
    /\ threads["t2"].patient_id \in DOMAIN baselines

(***************************************************************************)
(* C14: within one detect_anomalies call the subject's baseline and        *)
(* history are committed only after all detection for the observation has  *)
(* completed: at every point of the call up to the end of detection, where *)
(* the call may be abandoned or fail, the stored baseline and history of   *)
(* the subject equal their values before the call.                         *)
(***************************************************************************)
BeforeDetectionDone(th) ==
    /\ th.op = "detect_anomalies"
    /\ th.pc \in {"inner_update", "update_blocks", "detect"}

C14_CommitOnlyAfterDetection ==
    \A t \in Threads :
        (BeforeDetectionDone(threads[t]) /\ threads[t].patient_id \notin overlapped) =>
            /\ Lookup(baselines, threads[t].patient_id) = threads[t].pre_baseline
            /\ Lookup(anomaly_history, threads[t].patient_id) = threads[t].pre_history

(***************************************************************************)
(* C21: update_patient_baseline on a baseline with sample count n (n = 0   *)
(* for a subject without a baseline) and a value v for a tracked parameter *)
(* with bounds (lo, hi) leaves the bounds (lo*n/(n+1) + v/(n+1),           *)
(* hi*n/(n+1) + v/(n+1)) and the sample count n+1; the sample count never  *)
(* decreases.                                                              *)
(***************************************************************************)
Blend(bound, value, n) ==
    Add(DivPos(Mul(bound, R(n)), R(n + 1)), DivPos(value, R(n + 1)))

C21_IncrementalAverage ==
    /\ IsUpdate =>
          /\ baselines[last.patient_id].sample_count = PreSampleCount + 1
          /\ \A p \in TrackedParams :
                Has(last.health_data, p) =>
                    IntervalOf(baselines[last.patient_id], p) =
                        <<Blend(PriorInterval(p)[1], Get(last.health_data, p),
                                PreSampleCount),
                          Blend(PriorInterval(p)[2], Get(last.health_data, p),
                                PreSampleCount)>>
    /\ \A s \in DOMAIN last.pre_baselines :
          /\ s \in DOMAIN baselines
          /\ baselines[s].sample_count >= last.pre_baselines[s].sample_count

\* The third update of a subject moved an interval.
C21_ThirdUpdate ==
    /\ IsUpdate
    /\ PreSampleCount = 2
    /\ \E p \in TrackedParams :
          /\ Has(last.health_data, p)
          /\ IntervalOf(baselines[last.patient_id], p) # PriorInterval(p)

(***************************************************************************)
(* C22: the very first observation of a brand-new subject is judged        *)
(* against the global default normal ranges: a tracked parameter whose     *)
(* value lies outside its configured default range produces an anomaly     *)
(* result in that first detect_anomalies call.                             *)
(***************************************************************************)
C22_FirstJudgedAgainstDefaults ==
    (IsDetect /\ ~HadBaseline) =>
        \A p \in TrackedParams :
            (Has(last.health_data, p)
               /\ Outside(Get(last.health_data, p), normal_ranges[p])) =>
                IndicesOfType(last.results, type_mapping[p]) # {}

(***************************************************************************)
(* C23: the relative deviation used for severity and confidence is the     *)
(* distance of the value beyond the violated bound divided by the interval *)
(* width (130 against (60,100): (130-100)/40 = 0.75).                      *)
(***************************************************************************)
WidthOf(interval) == Sub(interval[2], interval[1])

DistanceBeyond(value, interval) ==
    IF Lt(interval[2], value) THEN Sub(value, interval[2])
    ELSE Sub(interval[1], value)

C23_DeviationIsDistanceBeyond ==
    \A r \in SingleStored :
        Leq(R(1), WidthOf(r.normal_range)) =>
            /\ r.severity = SeverityOf(DivPos(DistanceBeyond(r.value, r.normal_range),
                                             WidthOf(r.normal_range)))
            /\ r.confidence = ConfidenceOf(DivPos(DistanceBeyond(r.value, r.normal_range),
                                                  WidthOf(r.normal_range)))

(***************************************************************************)
(* C27: a tracked parameter with value v in a subject's first observation  *)
(* gets the interval (v, v) and its width stays 0 under every later        *)
(* update; a tracked parameter absent from the first observation keeps the *)
(* configured range until an update includes it; no update ever increases  *)
(* the width of an interval.                                               *)
(***************************************************************************)
C27_WidthNeverGrows ==
    (IsUpdate \/ IsDetect) =>
        \A p \in TrackedParams :
            /\ (~HadBaseline /\ Has(last.health_data, p)) =>
                   IntervalOf(baselines[last.patient_id], p) =
                       <<Get(last.health_data, p), Get(last.health_data, p)>>
            /\ (~HadBaseline /\ ~Has(last.health_data, p)) =>
                   IntervalOf(baselines[last.patient_id], p) = normal_ranges[p]
            /\ Leq(WidthOf(IntervalOf(baselines[last.patient_id], p)),
                   WidthOf(PriorInterval(p)))
            /\ (HadBaseline /\ ~Has(last.health_data, p)) =>
                   IntervalOf(baselines[last.patient_id], p) = PriorInterval(p)

\* An update moved an interval of width 0 to another point.
C27_PointMoved ==
    /\ IsUpdate
    /\ HadBaseline
    /\ \E p \in TrackedParams :
          /\ Has(last.health_data, p)
          /\ WidthOf(PriorInterval(p)) = R(0)
          /\ IntervalOf(baselines[last.patient_id], p) # PriorInterval(p)
          /\ WidthOf(IntervalOf(baselines[last.patient_id], p)) = R(0)

(***************************************************************************)
(* C25: a single-parameter result carries Tachycardia iff it is a          *)
(* heart-rate result with value > 120 and Bradycardia iff it is one with   *)
(* value < 50, never both; Potential respiratory distress iff it is an     *)
(* oxygen-saturation result with value < 92; Hypertensive crisis iff it is *)
(* a systolic blood-pressure result with value > 180 and Hypotension iff   *)
(* it is one with value < 90.                                              *)
(***************************************************************************)
HasTag(r, tag) == \E i \in 1..Len(r.risk_factors) : r.risk_factors[i] = tag

C25_RiskTags ==
    \A r \in SingleStored :
        /\ HasTag(r, "Tachycardia") <=>
               (r.anomaly_type = "heart_rate" /\ Lt(R(120), r.value))
        /\ HasTag(r, "Bradycardia") <=>
               (r.anomaly_type = "heart_rate" /\ Lt(r.value, R(50)))
        /\ ~(HasTag(r, "Tachycardia") /\ HasTag(r, "Bradycardia"))
        /\ HasTag(r, "Potential respiratory distress") <=>
               (r.anomaly_type = "oxygen_saturation" /\ Lt(r.value, R(92)))
        /\ HasTag(r, "Hypertensive crisis") <=>
               (r.anomaly_type = "blood_pressure" /\ Lt(R(180), r.value))
        /\ HasTag(r, "Hypotension") <=>
               (r.anomaly_type = "blood_pressure" /\ Lt(r.value, R(90)))

\* A heart-rate result at the threshold 50 without a tag of its own, next
\* to a blood-pressure result tagged as a crisis.
C25_AtThreshold ==
    \E r1, r2 \in SingleStored :
        /\ r1.anomaly_type = "heart_rate"
        /\ r1.value = R(50)
        /\ ~HasTag(r1, "Bradycardia")
        /\ r2.anomaly_type = "blood_pressure"
        /\ HasTag(r2, "Hypertensive crisis")

(***************************************************************************)
(* C28: against a baseline interval of width at least 1 every out-of-range *)
(* value is classified CRITICAL with confidence 0.95; LOW, MEDIUM and HIGH *)
(* are produced only against intervals narrower than 1.                    *)
(***************************************************************************)
C28_WideIntervalAlwaysCritical ==
    \A r \in SingleStored :
        /\ Leq(R(1), WidthOf(r.normal_range)) =>
               (r.severity = "critical" /\ r.confidence = Q(95, 100))
        /\ r.severity \in {"low", "medium", "high"} =>
               Lt(WidthOf(r.normal_range), R(1))

\* A value just outside a wide interval next to a LOW result against a
\* narrow one.
C28_WideAndNarrow ==
    \E r1, r2 \in SingleStored :
        /\ Leq(R(1), WidthOf(r1.normal_range))
        /\ Leq(DistanceBeyond(r1.value, r1.normal_range), R(1))
        /\ r2.severity = "low"

(***************************************************************************)
(* C29: in every summary returned by get_patient_history for a subject     *)
(* with a history entry, total_anomalies equals the sum of the             *)
(* severity_breakdown counts and the sum of the type_breakdown counts, and *)
(* the returned history has exactly total_anomalies elements, all with     *)
(* timestamp at or after the cutoff and in their stored order.             *)
(***************************************************************************)
RECURSIVE SumOfCounts(_, _)
SumOfCounts(dict, keys) ==
    IF keys = {} THEN 0
    ELSE LET key == CHOOSE k \in keys : TRUE
         IN  dict[key] + SumOfCounts(dict, keys \ {key})

InStoredOrder(history, stored) ==
    /\ \A i \in 1..Len(history) : \E a \in 1..Len(stored) : stored[a] = history[i]
    /\ \A i, j \in 1..Len(history) :
          i < j => \E a, b \in 1..Len(stored) :
                       a < b /\ stored[a] = history[i] /\ stored[b] = history[j]

C29_SummaryConsistent ==
    (IsQuery /\ last.patient_id \in DOMAIN anomaly_history) =>
        /\ query.reply.summary.total_anomalies =
               SumOfCounts(query.reply.summary.severity_breakdown,
                           DOMAIN query.reply.summary.severity_breakdown)
        /\ query.reply.summary.total_anomalies =
               SumOfCounts(query.reply.summary.type_breakdown,
                           DOMAIN query.reply.summary.type_breakdown)
        /\ Len(query.reply.history) = query.reply.summary.total_anomalies
        /\ \A i \in 1..Len(query.reply.history) :
              query.reply.history[i].timestamp >= now - query.hours
        /\ InStoredOrder(query.reply.history, anomaly_history[last.patient_id])

\* A query returned a result and left an older one out.
C29_Filtered ==
    /\ IsQuery
    /\ last.patient_id \in DOMAIN anomaly_history
    /\ query.reply.summary.total_anomalies >= 1
    /\ Len(anomaly_history[last.patient_id]) > query.reply.summary.total_anomalies

(***************************************************************************)
(* C24: the severity tier boundaries are the deviation thresholds the      *)
(* configuration supplies, so that detectors differing only in their       *)
(* configured thresholds assign different tiers to a relative deviation    *)
(* lying between their thresholds: each result's tier is the one its       *)
(* detector's thresholds table gives (a tier starting at the threshold of  *)
(* its name, LOW below moderate_deviation).                                *)
(***************************************************************************)
ConfiguredTier(thresholds, relative_deviation) ==
    IF Lt(relative_deviation, thresholds.moderate_deviation) THEN "low"
    ELSE IF Lt(relative_deviation, thresholds.severe_deviation) THEN "medium"
    ELSE IF Lt(relative_deviation, thresholds.critical_deviation) THEN "high"
    ELSE "critical"

C24_TiersFollowConfig ==
    \A r \in SingleStored :
        r.severity = ConfiguredTier(config.thresholds, DeviationOf(r))

(***************************************************************************)
(* C26: once a ConfigurationManager is constructed, get_config of a key    *)
(* named by an environment variable SWASTHYALINK_<KEY> returns the         *)
(* variable's value, whether the key comes from the configuration file or  *)
(* only from the built-in default rules (read for the keys of the default  *)
(* rules and the values those rules accept).                               *)
(***************************************************************************)
C26_EnvironmentOverrides ==
    \A name \in DOMAIN environ :
        ( /\ config_manager # <<>>
          /\ EnvKeys[name] \in DOMAIN default_rules
          /\ validate_config_value(default_rules[EnvKeys[name]],
                                   StrValue(environ[name])) )
        => get_config(config_manager[1].config, EnvKeys[name], NoneValue)
               = StrValue(environ[name])

(***************************************************************************)
(* C30: under any interleaving of get_config_manager calls, at most one    *)
(* ConfigurationManager is constructed and all callers receive the same    *)
(* instance.                                                               *)
(***************************************************************************)
C30_SingleInstance ==
    /\ constructed <= 1
    /\ Cardinality(UNION { callers[t].received : t \in Threads }) <= 1

\* C30 witness: a thread that passed the unlocked check while no instance
\* existed finds, under the lock, the instance another thread constructed.
C30_FoundUnderLock ==
    \E t \in Threads :
        /\ callers[t].pc = "release"
        /\ callers[t].built = <<>>
        /\ config_manager # <<>>
        /\ \E u \in Threads \ {t} : callers[u].received # {}
        /\ constructed = 1

====
